---- MODULE Spec2Model ----
(***************************************************************************)
(* MetadataSchema (Scene/MetadataSchema.js): the constructor that builds   *)
(* the enum table, then the class table, then stores name, description and *)
(* a deep clone of extras; and the five getter-only accessors.             *)
(*                                                                         *)
(* JavaScript objects live in `heap` (a reference is an index into it), so *)
(* that identity (===) and aliasing are part of the model.  The            *)
(* constructor is run in steps (one per loop iteration) by one caller at a *)
(* time, as in a single-threaded JavaScript realm.                         *)
(***************************************************************************)
EXTENDS Integers, Sequences, FiniteSets, TLC

\* ------------------------------------------------------------------ bounds
\* Number of distinct enum identifiers an input may use.
NumEnumIds == 2
\* Number of distinct class identifiers an input may use.
NumClassIds == 2
\* Number of schemas the caller constructs in SpecPair.
NumSchemas == 2

\* Identifier strings; classes and enums are separate namespaces that may
\* use the same identifier.
IdNames == <<"k1", "k2", "k3", "k4">>
EnumIds == {IdNames[i] : i \in 1..NumEnumIds}
ClassIds == {IdNames[i] : i \in 1..NumClassIds}

\* ------------------------------------------------------------------ values
\* A JavaScript value: a tag, an integer payload and a string payload.
Val(t, v, s) == [t |-> t, v |-> v, s |-> s]
Undefined == Val("undefined", 0, "")
Null == Val("null", 0, "")
Num(n) == Val("number", n, "")
Str(s) == Val("string", 0, s)
Ref(r) == Val("ref", r, "")
\* A raw enum definition; body 0 is a structurally invalid one.
EnumDef(n) == Val("enumdef", n, "")
\* A raw class definition with one property; e is the enum identifier the
\* property is typed by, "" when the property is not enum-typed.
ClassDef(e) == Val("classdef", 0, e)

IsRef(x) == x.t = "ref"
\* A heap object: its constructor and its own enumerable properties.
Obj(cls, props) == [cls |-> cls, props |-> props]
NoProps == [k \in {} |-> Undefined]
Keys(h, x) == IF IsRef(x) THEN DOMAIN h[x.v].props ELSE {}
\* Property read x[k]: undefined when absent.
Get(h, x, k) == IF IsRef(x) /\ k \in DOMAIN h[x.v].props THEN h[x.v].props[k] ELSE Undefined
\* Property write x[k] = v on an ordinary object.
Put(h, r, k, v) ==
    [h EXCEPT ![r].props = [j \in (DOMAIN @) \cup {k} |-> IF j = k THEN v ELSE @[j]]]
\* delete x[k]
Del(h, r, k) ==
    [h EXCEPT ![r].props = [j \in (DOMAIN @) \ {k} |-> @[j]]]

\* -------------------------------------------------------------- raw input
\* Depth of the nesting of the extras payloads the caller passes:
\* -1 no extras, 0 a primitive, n >= 1 an object n levels deep.
MaxExtrasDepth == 2

\* A raw mapping (schema.enums, schema.classes): absent, or its own entries
\* and the enumerable properties of its prototype chain.
AbsentMapping == [present |-> FALSE, own |-> NoProps, proto |-> NoProps]
RawMappings(ids, defs, protos) ==
    {AbsentMapping} \cup
    {[present |-> TRUE, own |-> f, proto |-> p] :
        f \in UNION {[S -> defs] : S \in SUBSET ids}, p \in protos}

\* The position of an identifier in IdNames.
Index(k) == CHOOSE i \in 1..Len(IdNames) : IdNames[i] = k
\* The raw enum mappings: each entry is the well-formed definition of its
\* identifier (each identifier has a definition of its own) or a
\* structurally invalid one.
RawEnums(protos) ==
    {AbsentMapping} \cup
    {[present |-> TRUE, own |-> f, proto |-> p] :
        f \in UNION {{g \in [S -> {EnumDef(i) : i \in 0..NumEnumIds}] :
                        \A k \in S : g[k].v \in {0, Index(k)}} : S \in SUBSET EnumIds},
        p \in protos}
ClassDefs == {ClassDef(e) : e \in {""} \cup EnumIds}

\* What the caller passes to new MetadataSchema(...): nothing, null, a
\* primitive, or a raw schema object.
NonObject(kind) ==
    [kind |-> kind, enums |-> AbsentMapping, classes |-> AbsentMapping,
     name |-> Undefined, description |-> Undefined, extrasDepth |-> -1]
RawInputs ==
    {NonObject(k) : k \in {"undefined", "null", "number", "string"}} \cup
    UNION {[kind : {"object"},
            enums : RawEnums({IF inh THEN [inherited |-> EnumDef(1)] ELSE NoProps}),
            classes : RawMappings(ClassIds, ClassDefs,
                                  {IF inh THEN [inherited |-> ClassDef("")] ELSE NoProps}),
            name : {Undefined, Str("n")},
            description : {Undefined, Str("d")},
            extrasDepth : -1..MaxExtrasDepth] : inh \in BOOLEAN}

\* The caller's extras payload of depth n, allocated in the heap:
\* {a: 1, b: {a: 1, b: ...}}.
RECURSIVE AllocExtras(_, _)
AllocExtras(h, n) ==
    IF n < 0 THEN [heap |-> h, val |-> Undefined]
    ELSE IF n = 0 THEN [heap |-> h, val |-> Num(1)]
    ELSE IF n = 1 THEN [heap |-> Append(h, Obj("Object", [a |-> Num(1)])),
                        val |-> Ref(Len(h) + 1)]
    ELSE LET inner == AllocExtras(h, n - 1)
         IN  [heap |-> Append(inner.heap, Obj("Object", [a |-> Num(1), b |-> inner.val])),
              val |-> Ref(Len(inner.heap) + 1)]

\* The objects reachable from x, x included.
RECURSIVE Reach(_, _)
Reach(h, x) ==
    IF ~IsRef(x) THEN {}
    ELSE {x.v} \cup UNION {Reach(h, h[x.v].props[k]) : k \in DOMAIN h[x.v].props}

\* The content of x, identities left out: what a deep comparison sees.
RECURSIVE Content(_, _)
Content(h, x) ==
    IF ~IsRef(x) THEN <<x>>
    ELSE <<h[x.v].cls, [k \in DOMAIN h[x.v].props |-> Content(h, h[x.v].props[k])]>>

\* ----------------------------------------------------------------- state
VARIABLES
    debug,      \* whether the build keeps the //>>includeStart('debug') block
    raw,        \* the raw schema the caller builds its inputs from
    maxRuns,    \* how many schemas the caller constructs
    heap,       \* the objects; a reference is an index
    fr,         \* the frame of the running constructor call
    calls,      \* the MetadataEnum and MetadataClass constructor calls made
    results,    \* per construction: what the caller got back
    lastWrite,  \* outcome of the caller's last assignment to an accessor
    uses        \* how many times the caller has used a constructed schema

vars == <<debug, raw, maxRuns, heap, fr, calls, results, lastWrite, uses>>

Idle == [pc |-> "idle", schema |-> NonObject("undefined"), extras |-> Undefined,
         enums |-> Undefined, classes |-> Undefined, todo |-> <<>>]

\* this before the constructor has assigned anything.
NoThis == [_classes |-> Undefined, _enums |-> Undefined, _name |-> Undefined,
           _description |-> Undefined, _extras |-> Undefined]

\* ------------------------------------------------- external collaborators
\* Check.typeOf.object: passes for an object, fails for null, undefined and
\* primitives.
CheckTypeOfObject(schema) == schema.kind = "object"

\* clone(object, deep): primitives are returned as they are; an object is
\* copied property by property into a new object, recursively when deep.
RECURSIVE clone(_, _, _)
RECURSIVE cloneProps(_, _, _, _, _)
cloneProps(h, src, dst, todo, deep) ==
    IF todo = {} THEN h
    ELSE LET k == CHOOSE j \in todo : TRUE
             c == IF deep THEN clone(h, h[src].props[k], deep)
                  ELSE [heap |-> h, val |-> h[src].props[k]]
         IN  cloneProps(Put(c.heap, dst, k, c.val), src, dst, todo \ {k}, deep)
clone(h, object, deep) ==
    IF ~IsRef(object) THEN [heap |-> h, val |-> object]
    ELSE LET r == Len(h) + 1
             h1 == Append(h, Obj(h[object.v].cls, NoProps))
         IN  [heap |-> cloneProps(h1, object.v, r, DOMAIN h[object.v].props, deep),
              val |-> Ref(r)]

\* new MetadataEnum(options) fails on a structurally invalid definition.
MetadataEnumOk(options) == options.enum.v # 0
MetadataEnum(options) ==
    Obj("MetadataEnum", [id |-> Str(options.id), enum |-> options.enum])

\* new MetadataClass(options) fails when the definition references an enum
\* identifier absent from options.enums; otherwise the reference is resolved
\* by lookup in options.enums, once, at construction.
MetadataClassOk(h, options) ==
    options.class.s = "" \/ options.class.s \in Keys(h, options.enums)
MetadataClass(h, options) ==
    Obj("MetadataClass",
        [id |-> Str(options.id), class |-> options.class,
         enumType |-> IF options.class.s = "" THEN Undefined
                      ELSE Get(h, options.enums, options.class.s)])

\* ----------------------------------------------------------- constructor
\* for (var k in mapping): the own enumerable properties in the order the
\* raw mapping lists them, then the inherited ones; no iteration over
\* undefined.
ForInKeys(m) ==
    IF ~m.present THEN <<>>
    ELSE SelectSeq(IdNames, LAMBDA k : k \in DOMAIN m.own) \o
         (IF "inherited" \in DOMAIN m.proto THEN <<"inherited">> ELSE <<>>)
\* A loop without the hasOwnProperty test.
HasOwnPropertyUntested(m, k) == TRUE
\* mapping.hasOwnProperty(k)
HasOwnProperty(m, k) == k \in DOMAIN m.own
\* mapping[k], for an own or an inherited property.
RawGet(m, k) ==
    IF k \in DOMAIN m.own THEN m.own[k]
    ELSE IF k \in DOMAIN m.proto THEN m.proto[k] ELSE Undefined

\* Options that take the definition of the first identifier, whatever the key.
EnumOptionsFirstDef(schema, enumId) ==
    [id |-> enumId, enum |-> RawGet(schema.enums, IdNames[1])]
\* The options of new MetadataEnum (lines 24-27).
EnumOptions(schema, enumId) ==
    [id |-> enumId, enum |-> RawGet(schema.enums, enumId)]
\* Options that leave the enums out.
ClassOptionsNoEnums(schema, classId, enums) ==
    [id |-> classId, class |-> RawGet(schema.classes, classId), enums |-> Undefined]
\* The options of new MetadataClass (lines 34-38).
ClassOptions(schema, classId, enums) ==
    [id |-> classId, class |-> RawGet(schema.classes, classId), enums |-> enums]
\* An enum loop left one key early.
EnumPassDoneEarly(todo) == Len(todo) <= 1
\* The enum loop is left when for-in has no key left.
EnumPassDone(todo) == todo = <<>>
\* A shallow clone of extras.
ExtrasOfShallow(h, extras) == clone(h, extras, FALSE)
\* this._extras (line 46).
ExtrasOf(h, extras) == clone(h, extras, TRUE)
\* A name defaulted to the empty string.
NameOfDefaulted(schema) == IF schema.name = Undefined THEN Str("") ELSE schema.name
\* this._name, this._description (lines 44-45).
NameOf(schema) == schema.name
DescriptionOf(schema) == schema.description

\* A constructor call of a collaborator, as the caller of it sees it.
Call(run, unit, options, enums, out) ==
    [run |-> run, unit |-> unit, id |-> options.id,
     def |-> IF unit = "MetadataEnum" THEN options.enum ELSE options.class,
     enums |-> enums, out |-> out]

\* A constructor without the argument check.
FailsCheckNever(dbg, schema) == FALSE
\* Lines 17-19: the block between //>>includeStart('debug', pragmas.debug)
\* and //>>includeEnd('debug') is part of debug builds only.
FailsCheck(dbg, schema) == dbg /\ ~CheckTypeOfObject(schema)
\* Line 22: reading schema.enums throws a TypeError when schema is null or
\* undefined; on a primitive it is undefined.
ReadThrows(schema) == schema.kind \in {"undefined", "null"}
\* An enums table kept from the first construction and used again.
CachedEnumsTable(h) ==
    IF \E i \in 1..Len(results) : results[i].status = "returned"
    THEN [heap |-> h,
          val |-> results[CHOOSE i \in 1..Len(results) :
                             results[i].status = "returned"].this._enums]
    ELSE [heap |-> Append(h, Obj("Object", NoProps)), val |-> Ref(Len(h) + 1)]
\* Line 21: var enums = {}, a new object in every call.
NewEnumsTable(h) == [heap |-> Append(h, Obj("Object", NoProps)), val |-> Ref(Len(h) + 1)]

\* The construction ends: the caller gets an instance, or the error thrown.
Return(this) ==
    /\ results' = Append(results, [status |-> "returned", error |-> "", this |-> this,
                                   schema |-> fr.schema, extras |-> fr.extras])
    /\ fr' = Idle
Throw(error) ==
    /\ results' = Append(results, [status |-> "threw", error |-> error, this |-> NoThis,
                                   schema |-> fr.schema, extras |-> fr.extras])
    /\ fr' = Idle
\* A loop that catches the failure and goes on with the next entry.
SwallowFailure(error) ==
    /\ fr' = [fr EXCEPT !.todo = Tail(@)]
    /\ UNCHANGED results
\* Lines 24 and 34: the constructor calls are in no try block, so what
\* new MetadataEnum or new MetadataClass throws leaves the constructor.
PropagateFailure(error) == Throw(error)

\* The caller builds its raw input (a fresh object graph) and calls
\* new MetadataSchema(schema).
New ==
    /\ fr.pc = "idle"
    /\ Len(results) < maxRuns
    /\ LET a == AllocExtras(heap, raw.extrasDepth)
       IN  /\ heap' = a.heap
           /\ fr' = [Idle EXCEPT !.pc = "check", !.schema = raw, !.extras = a.val]
    /\ UNCHANGED <<debug, raw, maxRuns, calls, results, lastWrite, uses>>

\* Lines 17-19: Check.typeOf.object("schema", schema), in debug builds.
CheckStep ==
    /\ fr.pc = "check"
    /\ IF FailsCheck(debug, fr.schema)
       THEN Throw("DeveloperError")
       ELSE /\ fr' = [fr EXCEPT !.pc = "enumInit"]
            /\ UNCHANGED results
    /\ UNCHANGED <<debug, raw, maxRuns, heap, calls, lastWrite, uses>>

\* Lines 21-22: var enums = {}; the for-in evaluates schema.enums, a
\* TypeError when schema is null or undefined.
EnumInit ==
    /\ fr.pc = "enumInit"
    /\ LET t == NewEnumsTable(heap)
       IN  /\ heap' = t.heap
           /\ IF ReadThrows(fr.schema)
              THEN Throw("TypeError")
              ELSE /\ fr' = [fr EXCEPT !.pc = "enumLoop", !.enums = t.val,
                                       !.todo = ForInKeys(fr.schema.enums)]
                   /\ UNCHANGED results
    /\ UNCHANGED <<debug, raw, maxRuns, calls, lastWrite, uses>>

\* Lines 22-29: one iteration of the enum loop.
EnumStep ==
    /\ fr.pc = "enumLoop"
    /\ ~EnumPassDone(fr.todo)
    /\ LET enumId == Head(fr.todo)
            options == EnumOptions(fr.schema, enumId)
            r == Len(heap) + 1
        IN  IF ~HasOwnProperty(fr.schema.enums, enumId)
            THEN /\ fr' = [fr EXCEPT !.todo = Tail(@)]
                 /\ UNCHANGED <<heap, calls, results>>
            ELSE IF ~MetadataEnumOk(options)
            THEN /\ PropagateFailure("ConstructionFailure")
                 /\ calls' = Append(calls, Call(Len(results) + 1, "MetadataEnum", options,
                                                Undefined, Undefined))
                 /\ UNCHANGED heap
            ELSE /\ heap' = Put(Append(heap, MetadataEnum(options)), fr.enums.v, enumId, Ref(r))
                 /\ calls' = Append(calls, Call(Len(results) + 1, "MetadataEnum", options,
                                                Undefined, Ref(r)))
                 /\ fr' = [fr EXCEPT !.todo = Tail(@)]
                 /\ UNCHANGED results
    /\ UNCHANGED <<debug, raw, maxRuns, lastWrite, uses>>

\* Lines 31-32: the enum loop is over; var classes = {}.
ClassInit ==
    /\ fr.pc = "enumLoop"
    /\ EnumPassDone(fr.todo)
    /\ heap' = Append(heap, Obj("Object", NoProps))
    /\ fr' = [fr EXCEPT !.pc = "classLoop", !.classes = Ref(Len(heap) + 1),
                        !.todo = ForInKeys(fr.schema.classes)]
    /\ UNCHANGED <<debug, raw, maxRuns, calls, results, lastWrite, uses>>

\* Lines 32-40: one iteration of the class loop.
ClassStep ==
    /\ fr.pc = "classLoop"
    /\ fr.todo # <<>>
    /\ LET classId == Head(fr.todo)
            options == ClassOptions(fr.schema, classId, fr.enums)
            r == Len(heap) + 1
        IN  IF ~HasOwnProperty(fr.schema.classes, classId)
            THEN /\ fr' = [fr EXCEPT !.todo = Tail(@)]
                 /\ UNCHANGED <<heap, calls, results>>
            ELSE IF ~MetadataClassOk(heap, options)
            THEN /\ PropagateFailure("ConstructionFailure")
                 /\ calls' = Append(calls, Call(Len(results) + 1, "MetadataClass", options,
                                                options.enums, Undefined))
                 /\ UNCHANGED heap
            ELSE /\ heap' = Put(Append(heap, MetadataClass(heap, options)),
                                fr.classes.v, classId, Ref(r))
                 /\ calls' = Append(calls, Call(Len(results) + 1, "MetadataClass", options,
                                                options.enums, Ref(r)))
                 /\ fr' = [fr EXCEPT !.todo = Tail(@)]
                 /\ UNCHANGED results
    /\ UNCHANGED <<debug, raw, maxRuns, lastWrite, uses>>

\* Lines 42-46: the class loop is over; the five fields are assigned and the
\* instance is returned.
Assign ==
    /\ fr.pc = "classLoop"
    /\ fr.todo = <<>>
    /\ LET c == ExtrasOf(heap, fr.extras)
       IN  /\ heap' = c.heap
           /\ Return([_classes |-> fr.classes, _enums |-> fr.enums,
                      _name |-> NameOf(fr.schema),
                      _description |-> DescriptionOf(fr.schema),
                      _extras |-> c.val])
    /\ UNCHANGED <<debug, raw, maxRuns, calls, lastWrite, uses>>

\* ------------------------------------------------- after construction
\* Number of operations the caller performs on its raw input and on the
\* constructed schema in SpecUse.
MaxUses == 1

Accessors == {"classes", "enums", "name", "description", "extras"}
\* The getters (lines 58-118).
Getter(this, name) ==
    CASE name = "classes" -> this._classes
      [] name = "enums" -> this._enums
      [] name = "name" -> this._name
      [] name = "description" -> this._description
      [] name = "extras" -> this._extras
\* A descriptor of name with a set function.
HasSetterForName(name) == name = "name"
\* The property descriptors define get only (lines 49-119).
HasSetter(name) == FALSE
\* The field a setter of the accessor would assign.
SetField(this, name, v) ==
    CASE name = "classes" -> [this EXCEPT !._classes = v]
      [] name = "enums" -> [this EXCEPT !._enums = v]
      [] name = "name" -> [this EXCEPT !._name = v]
      [] name = "description" -> [this EXCEPT !._description = v]
      [] name = "extras" -> [this EXCEPT !._extras = v]

Returned == {i \in 1..Len(results) : results[i].status = "returned"}

\* The caller assigns to a property of the raw extras object it passed in,
\* at any depth.
MutateRaw(i) ==
    /\ fr.pc = "idle"
    /\ uses < MaxUses
    /\ \E r \in Reach(heap, results[i].extras) : \E k \in DOMAIN heap[r].props :
         /\ heap[r].props[k] # Num(9)
         /\ heap' = Put(heap, r, k, Num(9))
    /\ uses' = uses + 1
    /\ UNCHANGED <<debug, raw, maxRuns, fr, calls, results, lastWrite>>

\* The caller reads an accessor and uses the object it returns: it assigns
\* to a property of schema.extras (at any depth), or deletes an entry of
\* schema.classes or schema.enums.
MutateReturned(i) ==
    /\ fr.pc = "idle"
    /\ uses < MaxUses
    /\ \/ \E r \in Reach(heap, Getter(results[i].this, "extras")) :
            \E k \in DOMAIN heap[r].props :
              /\ heap[r].props[k] # Num(9)
              /\ heap' = Put(heap, r, k, Num(9))
       \/ \E name \in {"classes", "enums"} :
            \E k \in Keys(heap, Getter(results[i].this, name)) :
              heap' = Del(heap, Getter(results[i].this, name).v, k)
    /\ uses' = uses + 1
    /\ UNCHANGED <<debug, raw, maxRuns, fr, calls, results, lastWrite>>

\* The caller assigns to an accessor: schema.name = v.  Without a setter the
\* assignment throws a TypeError in module (strict) code and changes nothing.
WriteAccessor(i) ==
    /\ fr.pc = "idle"
    /\ uses < MaxUses
    /\ \E name \in Accessors :
         IF HasSetter(name)
         THEN /\ results' = [results EXCEPT ![i].this = SetField(@, name, Str("w"))]
              /\ lastWrite' = "assigned"
         ELSE /\ lastWrite' = "TypeError"
              /\ UNCHANGED results
    /\ uses' = uses + 1
    /\ UNCHANGED <<debug, raw, maxRuns, heap, fr, calls>>

\* ------------------------------------------------------- specifications
Start(inputs, runs) ==
    /\ debug \in BOOLEAN
    /\ raw \in inputs
    /\ maxRuns = runs
    /\ heap = <<>>
    /\ fr = Idle
    /\ calls = <<>>
    /\ results = <<>>
    /\ lastWrite = "none"
    /\ uses = 0

\* The inputs on which every MetadataEnum and MetadataClass can be built.
IsValid(x) ==
    /\ x.kind = "object"
    /\ \A k \in DOMAIN x.enums.own : x.enums.own[k].v # 0
    /\ \A k \in DOMAIN x.classes.own :
         x.classes.own[k].s \in {""} \cup DOMAIN x.enums.own
ValidInputs == {x \in RawInputs : IsValid(x)}

Construct == New \/ CheckStep \/ EnumInit \/ EnumStep \/ ClassInit \/ ClassStep \/ Assign

\* One construction, from any input.
Init == Start(RawInputs, 1)
Next == Construct
Spec == Init /\ [][Next]_vars

\* Several constructions that succeed, each from a fresh copy of the same
\* raw schema.
InitPair == Start(ValidInputs, NumSchemas)
SpecPair == InitPair /\ [][Next]_vars

\* One construction that succeeds, and the caller's use of the result.
InitUse == Start(ValidInputs, 1)
NextUse ==
    \/ Construct
    \/ \E i \in Returned : MutateRaw(i)
    \/ \E i \in Returned : MutateReturned(i)
    \/ \E i \in Returned : WriteAccessor(i)
SpecUse == InitUse /\ [][NextUse]_vars

\* ----------------------------------------------------------------- claims
\* The collaborator calls made by construction i.
CallsOf(i) == {j \in 1..Len(calls) : calls[j].run = i}
\* {}: no field at all.
EmptyObject ==
    [kind |-> "object", enums |-> AbsentMapping, classes |-> AbsentMapping,
     name |-> Undefined, description |-> Undefined, extrasDepth |-> -1]
\* x is an empty mapping object.
IsEmptyMapping(x) == IsRef(x) /\ heap[x.v].cls = "Object" /\ Keys(heap, x) = {}

C2_EnumsBeforeClasses ==
    \A j \in 1..Len(calls) :
        calls[j].unit = "MetadataClass" =>
            \A k \in DOMAIN raw.enums.own :
                /\ \E e \in 1..(j - 1) :
                     /\ calls[e].run = calls[j].run
                     /\ calls[e].unit = "MetadataEnum"
                     /\ calls[e].id = k
                     /\ IsRef(calls[e].out)
                /\ k \in Keys(heap, calls[j].enums)
C2_Witness ==
    /\ fr.pc = "classLoop"
    /\ Cardinality(DOMAIN raw.enums.own) = 2
    /\ \E j \in 1..Len(calls) : calls[j].unit = "MetadataClass" /\ IsRef(calls[j].out)

C6_Propagation ==
    /\ \A j \in 1..Len(calls) :
         ~IsRef(calls[j].out) =>
            /\ j = Len(calls)
            /\ fr.pc = "idle"
            /\ Len(results) = calls[j].run
            /\ results[calls[j].run].status = "threw"
            /\ results[calls[j].run].error = "ConstructionFailure"
            /\ results[calls[j].run].this = NoThis
            /\ \A e \in CallsOf(calls[j].run) \ {j} :
                 calls[e].unit # calls[j].unit \/ calls[e].id # calls[j].id
    /\ \A i \in 1..Len(results) :
         results[i].schema.kind = "object" /\ ~IsValid(results[i].schema) =>
            results[i].status = "threw"
\* A class that references an enum identifier absent from the enums mapping,
\* after another class was built.
C6_Witness ==
    \E j \in 1..Len(calls) :
        /\ calls[j].unit = "MetadataClass"
        /\ ~IsRef(calls[j].out)
        /\ calls[j].def.s \notin DOMAIN raw.enums.own
        /\ \E e \in 1..(j - 1) : calls[e].unit = "MetadataClass"
        /\ results[calls[j].run].status = "threw"

\* C8: constructing from {} succeeds, with empty classes and enums mappings
\* and undefined name, description and extras.
C8_EmptyObject ==
    \A i \in 1..Len(results) :
        results[i].schema = EmptyObject =>
            /\ results[i].status = "returned"
            /\ IsEmptyMapping(Getter(results[i].this, "classes"))
            /\ IsEmptyMapping(Getter(results[i].this, "enums"))
            /\ Getter(results[i].this, "classes") # Getter(results[i].this, "enums")
            /\ Getter(results[i].this, "name") = Undefined
            /\ Getter(results[i].this, "description") = Undefined
            /\ Getter(results[i].this, "extras") = Undefined
C8_Witness ==
    \E i \in Returned : results[i].schema = EmptyObject

Entries(table) == {Get(heap, table, k) : k \in Keys(heap, table)}

\* C3: every class of a constructed schema was built with the whole enums
\* mapping, which is the very object schema.enums returns; an enum identifier
\* a class references resolves to the MetadataEnum instance schema.enums holds
\* under it, never to a copy nor to an enum of another schema.
C3_SameEnums ==
    \A i \in Returned :
        LET x == results[i]
        IN  \A j \in CallsOf(i) :
              calls[j].unit = "MetadataClass" =>
                /\ calls[j].enums = Getter(x.this, "enums")
                /\ Keys(heap, calls[j].enums) = DOMAIN x.schema.enums.own
                /\ Get(heap, Getter(x.this, "classes"), calls[j].id) = calls[j].out
                /\ calls[j].def.s # "" =>
                     /\ IsRef(heap[calls[j].out.v].props.enumType)
                     /\ heap[calls[j].out.v].props.enumType =
                          Get(heap, Getter(x.this, "enums"), calls[j].def.s)
                     /\ \A o \in Returned \ {i} :
                          heap[calls[j].out.v].props.enumType \notin
                              Entries(Getter(results[o].this, "enums"))
\* Two schemas, each with a class that references one of its two enums.
C3_Witness ==
    /\ Cardinality(Returned) = 2
    /\ \A i \in Returned :
         /\ Cardinality(Keys(heap, results[i].this._enums)) = 2
         /\ \E k \in Keys(heap, results[i].this._classes) :
              IsRef(heap[Get(heap, results[i].this._classes, k).v].props.enumType)

\* C9: two schemas built from structurally identical raw inputs have equal
\* class key sets, equal enum key sets and equal extras content, and share
\* no object: the enums and classes mappings and every MetadataEnum and
\* MetadataClass of one are distinct from those of the other.
C9_Independent ==
    \A i \in Returned : \A o \in Returned :
        (i # o /\ results[i].schema = results[o].schema) =>
            LET a == results[i].this
                b == results[o].this
            IN  /\ Keys(heap, Getter(a, "classes")) = Keys(heap, Getter(b, "classes"))
                /\ Keys(heap, Getter(a, "enums")) = Keys(heap, Getter(b, "enums"))
                /\ Content(heap, Getter(a, "extras")) = Content(heap, Getter(b, "extras"))
                /\ Getter(a, "name") = Getter(b, "name")
                /\ Getter(a, "description") = Getter(b, "description")
                /\ Getter(a, "enums") # Getter(b, "enums")
                /\ Getter(a, "classes") # Getter(b, "classes")
                /\ Entries(Getter(a, "enums")) \cap Entries(Getter(b, "enums")) = {}
                /\ Entries(Getter(a, "classes")) \cap Entries(Getter(b, "classes")) = {}
                /\ Reach(heap, Getter(a, "enums")) \cap Reach(heap, Getter(b, "enums")) = {}
                /\ Reach(heap, Getter(a, "classes")) \cap Reach(heap, Getter(b, "classes")) = {}
\* Two schemas from the same raw schema, with enums, classes and nested
\* extras, the raw extras being two distinct object graphs.
C9_Witness ==
    /\ Cardinality(Returned) = 2
    /\ raw.extrasDepth = 2
    /\ \A i \in Returned :
         /\ Keys(heap, results[i].this._enums) # {}
         /\ Cardinality(Keys(heap, results[i].this._classes)) = 2
    /\ results[1].extras # results[2].extras

\* The content of schema i's extras, and the objects it and the raw extras
\* passed in are made of.
ExtrasContent(i) == Content(heap, Getter(results[i].this, "extras"))
Aliased(i) ==
    Reach(heap, results[i].extras) \cap Reach(heap, Getter(results[i].this, "extras"))

\* C4: after construction, no mutation by the caller of the extras object it
\* passed in, at any depth, changes schema.extras; the schema shares no object
\* with the caller's raw extras.
C4_CopyIsolation ==
    [][(\E i \in Returned : MutateRaw(i)) =>
         \A i \in Returned : ExtrasContent(i)' = ExtrasContent(i) /\ Aliased(i)' = {}]_vars
\* The caller has changed the nested object of its raw extras and
\* schema.extras still has the content that was passed in.
C4_Witness ==
    \E i \in Returned :
        /\ raw.extrasDepth = 2
        /\ Get(heap, Get(heap, results[i].extras, "b"), "a") = Num(9)
        /\ ExtrasContent(i) =
             Content(AllocExtras(<<>>, 2).heap, AllocExtras(<<>>, 2).val)

\* What the five accessors of schema i give, by content.
Observed(i) == [a \in Accessors |-> Content(heap, Getter(results[i].this, a))]

====
